---- MODULE Spec2Model ----
(***************************************************************************)
(* Model of the tplink integration of the Home Assistant core repository.  *)
(*                                                                         *)
(* Part I  (specification Spec) models                                     *)
(*   homeassistant/components/tplink/__init__.py:                          *)
(*   async_setup, async_setup_entry, async_unload_entry and                *)
(*   TPLinkDataUpdateCoordinator._async_update_data.                       *)
(*                                                                         *)
(* Part II (specifications MigSpec, MigFairSpec) models the legacy-entry   *)
(*   migration exercised by tests/components/tplink/test_migration.py.     *)
(***************************************************************************)
EXTENDS Integers, Sequences, FiniteSets, TLC

VARIABLES
    \* ---- Part I: __init__.py ----
    hassData,       \* hass.data[DOMAIN]: a dict, key -> value
    entry,          \* the ConfigEntry handed to async_setup_entry / async_unload_entry
    flowInits,      \* import flows async_setup has started
    lastCall,       \* the most recent handler call: its inputs, effects and result
    \* ---- Part II: migration ----
    config_entries, \* entry_id -> [unique_id, host]
    device_reg,     \* device record id -> [mac, config_entries]
    entity_reg,     \* entity record id -> [unique_id, config_entry_id]
    mig             \* control state of the migration: phase, clock, timer, ...

codeVars == <<hassData, entry, flowInits, lastCall>>
migVars  == <<config_entries, device_reg, entity_reg, mig>>
vars     == <<codeVars, migVars>>

\* Python's None and an Optional value that is present.
None == <<>>
Some(v) == <<v>>

\* An empty dict.
EmptyDict == [k \in {} |-> None]

(***************************************************************************)
(* Part I.  Bounds and the environment.                                    *)
(***************************************************************************)
NumDevices == 2

\* kasa SmartDevice objects: device d is a bulb when d is odd, a plug otherwise.
Devices == 1..NumDevices
IsBulb(d) == d % 2 = 1
Alias(d) == <<"alias", d>>
EmeterRealtime(d) ==
    [power |-> d, total |-> d + 1, voltage |-> d + 2, current |-> d + 3]

\* What a device answers at one moment: whether device.update() succeeds,
\* whether it has an emeter, and device.emeter_today (None, 0 or a reading).
DevStates ==
    [reachable : BOOLEAN, has_emeter : BOOLEAN, emeter_today : {None, Some(0), Some(5)}]

\* Keys of hass.data[DOMAIN] and of the coordinator data.
ATTR_CONFIG == "config"
CONF_LIGHT == "light"
CONF_SWITCH == "switch"
CONF_DISCOVERY == "discovery"
UNAVAILABLE_DEVICES == "unavailable"
COORDINATORS == "coordinators"
CONF_EMETER_PARAMS == "emeter_params"
ATTR_CURRENT_POWER_W == "current_power_w"
ATTR_TOTAL_ENERGY_KWH == "total_energy_kwh"
ATTR_VOLTAGE == "voltage"
ATTR_CURRENT_A == "current_a"
ATTR_TODAY_ENERGY_KWH == "today_energy_kwh"

\* The YAML configurations CONFIG_SCHEMA lets through: discovery is always present.
Configs == {[discovery |-> b] : b \in BOOLEAN}

\* dict helpers
Put(d, k, v) == [x \in (DOMAIN d) \cup {k} |-> IF x = k THEN v ELSE d[x]]
Get(d, k) == IF k \in DOMAIN d THEN d[k] ELSE None

(***************************************************************************)
(* TPLinkDataUpdateCoordinator                                             *)
(***************************************************************************)
\* TPLinkDataUpdateCoordinator.__init__: a fresh coordinator for device d.
NewCoordinator(d) ==
    [device |-> d, update_children |-> TRUE, name |-> Alias(d)]

\* What `except SmartDeviceException as ex` in _async_update_data makes of the
\* failure of device.update(): it raises UpdateFailed.
\* (Variant: the exception is not caught.)
OnUpdateExceptionEscapes == "SmartDeviceException"
OnUpdateException == "UpdateFailed"

\* consumption_today of _async_update_data: emeter_today when it is not None,
\* else None for a bulb and 0.0 for any other device.
\* (Variant: emeter_today tested for truth instead of `is not None`.)
ConsumptionTodayTruthy(d, st) ==
    IF st.emeter_today # None /\ st.emeter_today # Some(0) THEN st.emeter_today
    ELSE IF IsBulb(d) THEN None ELSE Some(0)
ConsumptionToday(d, st) ==
    IF st.emeter_today # None THEN st.emeter_today
    ELSE IF IsBulb(d) THEN None ELSE Some(0)

\* The attributes of the device consumption_today reads.
ConsumptionTodayReads(st) ==
    IF st.emeter_today # None THEN {"emeter_today"} ELSE {"emeter_today", "is_bulb"}

\* The mapping _async_update_data returns for a device with an emeter.
EmeterData(d, st) ==
    CONF_EMETER_PARAMS :>
        (ATTR_CURRENT_POWER_W :> EmeterRealtime(d).power
         @@ ATTR_TOTAL_ENERGY_KWH :> EmeterRealtime(d).total
         @@ ATTR_VOLTAGE :> EmeterRealtime(d).voltage
         @@ ATTR_CURRENT_A :> EmeterRealtime(d).current
         @@ ATTR_TODAY_ENERGY_KWH :> ConsumptionToday(d, st))

\* TPLinkDataUpdateCoordinator._async_update_data on coordinator c while its
\* device answers st.  outcome is "return" or the exception raised; reads are
\* the device attributes and methods the call touched.
UpdateData(c, st) ==
    IF ~st.reachable
    THEN [outcome |-> OnUpdateException, data |-> None, reads |-> {"update"},
          update_children |-> c.update_children, name |-> c.name]
    ELSE IF ~st.has_emeter
    THEN [outcome |-> "return", data |-> Some(EmptyDict),
          reads |-> {"update", "alias", "has_emeter"},
          update_children |-> TRUE, name |-> Alias(c.device)]
    ELSE [outcome |-> "return", data |-> Some(EmeterData(c.device, st)),
          reads |-> {"update", "alias", "has_emeter", "emeter_realtime"}
                      \cup ConsumptionTodayReads(st),
          update_children |-> TRUE, name |-> Alias(c.device)]

\* DataUpdateCoordinator.async_refresh of the host: it calls _async_update_data,
\* keeps the data on success and logs UpdateFailed; any other exception reaches
\* the caller.  The fields the host keeps (data, last_update_success) are the
\* host's; the coordinator record holds the fields __init__.py assigns.
AsyncRefresh(c, st) ==
    LET r == UpdateData(c, st)
    IN  [raised |-> IF r.outcome \in {"return", "UpdateFailed"} THEN "none" ELSE r.outcome,
         update |-> r,
         coordinator |-> [c EXCEPT !.update_children = r.update_children, !.name = r.name]]

(***************************************************************************)
(* async_setup, async_setup_entry, async_unload_entry                      *)
(***************************************************************************)
\* The elements of a set of devices as a list, in ascending order.
RECURSIVE SeqOf(_)
SeqOf(S) ==
    IF S = {} THEN <<>>
    ELSE LET m == CHOOSE x \in S : \A y \in S : x <= y
         IN  <<m>> \o SeqOf(S \ {m})

\* SmartDevices(lights, switches) as get_static_devices / async_discover_devices
\* return them, for the set S of devices they found.
SmartDevices(S) ==
    [lights |-> SeqOf({d \in S : IsBulb(d)}), switches |-> SeqOf({d \in S : ~IsBulb(d)})]

\* config_data of async_setup_entry: the YAML configuration async_setup stored,
\* else the entry's data when that is not empty, else None.
ConfigData(hd, e) ==
    IF Get(hd, ATTR_CONFIG) = None /\ DOMAIN e.data # {} THEN Some(e.data)
    ELSE Get(hd, ATTR_CONFIG)

\* The entry after hass.config_entries.async_update_entry(entry, data=config_data),
\* which async_setup_entry calls only when the YAML configuration is present.
UpdatedEntry(hd, e) ==
    IF Get(hd, ATTR_CONFIG) = None /\ DOMAIN e.data # {} THEN e
    ELSE IF Get(hd, ATTR_CONFIG) # None THEN [e EXCEPT !.data = Get(hd, ATTR_CONFIG)[1]]
    ELSE e

\* One iteration of `for device in switches + lights`: the coordinator is created
\* and registered under device.device_id, then refreshed; a device that cannot be
\* reached is logged and the loop goes on.
\* (Variant: a failed first refresh ends set-up.)
SetupStepAbortOnFailure(acc, d, st) ==
    LET r == AsyncRefresh(NewCoordinator(d), st)
    IN  [coordinators |-> Put(acc.coordinators, d, r.coordinator),
         refreshed    |-> Append(acc.refreshed, d),
         aborted      |-> acc.aborted \/ r.update.outcome # "return"]
SetupStep(acc, d, st) ==
    LET r == AsyncRefresh(NewCoordinator(d), st)
    IN  [coordinators |-> Put(acc.coordinators, d, r.coordinator),
         refreshed    |-> Append(acc.refreshed, d),
         aborted      |-> acc.aborted]

\* The whole loop over devs; an exception that is not handled ends it.
RECURSIVE PrepareCoordinators(_, _, _)
PrepareCoordinators(devs, w, acc) ==
    IF devs = <<>> \/ acc.aborted THEN acc
    ELSE PrepareCoordinators(Tail(devs), w, SetupStep(acc, Head(devs), w[Head(devs)]))

\* hass.data[DOMAIN] after async_unload_entry: cleared when the platforms unloaded.
\* (Variant: cleared whatever the platforms answered.)
UnloadDataAlways(hd, unload_ok) == EmptyDict
UnloadData(hd, unload_ok) == IF unload_ok THEN EmptyDict ELSE hd

\* What the devices can answer during the first refresh of async_setup_entry:
\* reachable or not (the data of that refresh stays with the host's coordinator).
FirstAnswers == {st \in DevStates : st.has_emeter /\ st.emeter_today = None}

NoCall == [op |-> "none"]

\* async_setup(hass, config) with conf = config.get(DOMAIN).
AsyncSetup(conf) ==
    /\ hassData = None
    /\ hassData' = Some(Put(EmptyDict, ATTR_CONFIG, conf))
    /\ flowInits' = IF conf # None THEN flowInits + 1 ELSE flowInits
    /\ lastCall' = [op |-> "async_setup", conf |-> conf]
    /\ UNCHANGED <<entry, migVars>>

\* async_setup_entry(hass, entry).  static and found are the devices
\* get_static_devices and async_discover_devices return, w what each device
\* answers during its first refresh.
AsyncSetupEntry(static, found, w) ==
    /\ hassData # None
    /\ entry.state = "not_loaded"
    /\ LET hd == hassData[1]
           config_data == ConfigData(hd, entry)
           static_devices == IF config_data # None THEN SmartDevices(static)
                             ELSE SmartDevices({})
           discovered_devices ==
               IF config_data = None \/ config_data[1][CONF_DISCOVERY]
               THEN SmartDevices(found) ELSE SmartDevices({})
           lights == static_devices.lights \o discovered_devices.lights
           switches == static_devices.switches \o discovered_devices.switches
           loop == PrepareCoordinators(switches \o lights, w,
                       [coordinators |-> EmptyDict, refreshed |-> <<>>, aborted |-> FALSE])
           hd1 == Put(Put(Put(Put(hd, CONF_LIGHT, lights), CONF_SWITCH, switches),
                          UNAVAILABLE_DEVICES, <<>>), COORDINATORS, loop.coordinators)
       IN  /\ hassData' = Some(hd1)
           /\ entry' = [UpdatedEntry(hd, entry) EXCEPT
                           !.state = IF loop.aborted THEN "setup_error" ELSE "loaded"]
           /\ lastCall' = [op |-> "async_setup_entry",
                            devices |-> switches \o lights,
                            refreshed |-> loop.refreshed,
                            unreachable |-> {d \in Devices : ~w[d].reachable},
                            platform_setups |-> IF loop.aborted THEN 0 ELSE 1,
                            ret |-> IF loop.aborted THEN "raised" ELSE "True"]
    /\ UNCHANGED <<flowInits, migVars>>

\* async_unload_entry(hass, entry); unload_ok is what async_unload_platforms returns.
AsyncUnloadEntry(unload_ok) ==
    /\ hassData # None
    /\ entry.state = "loaded"
    /\ hassData' = Some(UnloadData(hassData[1], unload_ok))
    /\ entry' = [entry EXCEPT !.state = IF unload_ok THEN "not_loaded" ELSE "failed_unload"]
    /\ lastCall' = [op |-> "async_unload_entry", unload_ok |-> unload_ok,
                      before |-> hassData[1], ret |-> unload_ok]
    /\ UNCHANGED <<flowInits, migVars>>

\* The host's periodic refresh (update_interval) of the coordinator of device d,
\* while the device answers st.
Refresh(d, st) ==
    /\ hassData # None
    /\ entry.state \in {"loaded", "failed_unload"}
    /\ COORDINATORS \in DOMAIN hassData[1]
    /\ d \in DOMAIN hassData[1][COORDINATORS]
    /\ LET c == hassData[1][COORDINATORS][d]
           r == AsyncRefresh(c, st)
       IN  /\ hassData' = Some(Put(hassData[1], COORDINATORS,
                                   Put(hassData[1][COORDINATORS], d, r.coordinator)))
           /\ lastCall' = [op |-> "refresh", device |-> d, st |-> st,
                              outcome |-> r.update.outcome, data |-> r.update.data,
                              reads |-> r.update.reads]
    /\ UNCHANGED <<entry, flowInits, migVars>>

MigIdle ==
    /\ config_entries = EmptyDict
    /\ device_reg = EmptyDict
    /\ entity_reg = EmptyDict
    /\ mig = [phase |-> "off"]

Init ==
    /\ hassData = None
    /\ entry \in [data : {EmptyDict} \cup Configs, state : {"not_loaded"}]
    /\ flowInits = 0
    /\ lastCall = NoCall
    /\ MigIdle

Next ==
    \/ \E conf \in {None} \cup {Some(c) : c \in Configs} : AsyncSetup(conf)
    \/ \E static \in SUBSET Devices, found \in SUBSET Devices, w \in [Devices -> FirstAnswers] :
          AsyncSetupEntry(static, found, w)
    \/ \E unload_ok \in BOOLEAN : AsyncUnloadEntry(unload_ok)
    \/ \E d \in Devices, st \in DevStates : Refresh(d, st)

Spec == Init /\ [][Next]_vars

(***************************************************************************)
(* Part II.  Migration of the legacy config entry.                         *)
(*                                                                         *)
(* The registries start as the fixtures of test_migration.py build them;   *)
(* the migration itself (homeassistant/components/tplink/migration.py and  *)
(* the set-up code that calls it) is modelled from the specification.      *)
(***************************************************************************)
MaxEntities == 2
MaxNow == 65

\* DOMAIN of __init__.py: the unique id of the legacy entry.
TPLINK_DOMAIN == "tplink"
\* Seconds between set-up and the deferred cleanup of the legacy entry.
CLEANUP_DELAY == 60

\* The MAC addresses of the fixtures: the device of the tests and another one.
MAC_ADDRESS == "aa:bb:cc:dd:ee:ff"
OTHER_MAC == "00:00:00:00:00:00"
Macs == {MAC_ADDRESS, OTHER_MAC}
IpOf(mac) == <<"ip", mac>>

\* A unique id is a string, modelled as the list of its parts: a MAC address is
\* one part, "_" is the separator, anything else is free text.
UniqueIds ==
    {<<m>> : m \in Macs} \cup {<<m, "_", "sensor">> : m \in Macs}
        \cup {<<"garbage">>, <<MAC_ADDRESS, "sensor">>}

\* The entry id of the legacy entry in the fixtures.
LegacyId == 1

\* The entry with unique id = DOMAIN, if any.
LegacyEntries(ce) == {id \in DOMAIN ce : ce[id].unique_id = TPLINK_DOMAIN}
\* The per-device entries whose unique id is mac.
EntriesOfMac(ce, mac) == {id \in DOMAIN ce : ce[id].unique_id = mac}

\* The MAC a unique id is scoped to: the text before the first "_", when that
\* text is a MAC address; None when the unique id does not parse.
RECURSIVE BeforeSeparator(_)
BeforeSeparator(uid) ==
    IF uid = <<>> \/ Head(uid) = "_" THEN <<>>
    ELSE <<Head(uid)>> \o BeforeSeparator(Tail(uid))
\* (Variant: any unique id that starts with a MAC address.)
MacOfUniqueIdPrefix(uid) ==
    IF uid # <<>> /\ Head(uid) \in Macs THEN Some(Head(uid)) ELSE None
MacOfUniqueId(uid) ==
    LET head == BeforeSeparator(uid)
    IN  IF Len(head) = 1 /\ head[1] \in Macs THEN Some(head[1]) ELSE None

\* A fresh entry id.
NextEntryId(ce) ==
    IF DOMAIN ce = {} THEN LegacyId + 1
    ELSE 1 + CHOOSE x \in DOMAIN ce : \A y \in DOMAIN ce : y <= x

\* The config entries after a per-device entry exists for every discovered MAC:
\* an existing entry of that MAC is kept, otherwise one is created.
\* (Variant: an entry is created without looking for an existing one.)
RECURSIVE EnsureEntriesAlwaysCreate(_, _)
EnsureEntriesAlwaysCreate(ce, macs) ==
    IF macs = {} THEN ce
    ELSE LET m == CHOOSE x \in macs : TRUE
             ce1 == Put(ce, NextEntryId(ce), [unique_id |-> m, host |-> Some(IpOf(m))])
         IN  EnsureEntriesAlwaysCreate(ce1, macs \ {m})
RECURSIVE EnsureEntries(_, _)
EnsureEntries(ce, macs) ==
    IF macs = {} THEN ce
    ELSE LET m == CHOOSE x \in macs : TRUE
             ce1 == IF EntriesOfMac(ce, m) # {} THEN ce
                    ELSE Put(ce, NextEntryId(ce),
                             [unique_id |-> m, host |-> Some(IpOf(m))])
         IN  EnsureEntries(ce1, macs \ {m})

\* The device registry after the records of the MAC of new_id moved from the
\* legacy entry to the entry new_id.
\* (Variant: the new entry is added, the legacy one kept.)
MigrateDevicesKeepLegacy(dr, ce, legacy_id, new_id) ==
    [k \in DOMAIN dr |->
        IF legacy_id \in dr[k].config_entries /\ dr[k].mac = ce[new_id].unique_id
        THEN [dr[k] EXCEPT !.config_entries = @ \cup {new_id}]
        ELSE dr[k]]
MigrateDevices(dr, ce, legacy_id, new_id) ==
    [k \in DOMAIN dr |->
        IF legacy_id \in dr[k].config_entries /\ dr[k].mac = ce[new_id].unique_id
        THEN [dr[k] EXCEPT !.config_entries = (@ \ {legacy_id}) \cup {new_id}]
        ELSE dr[k]]

\* The entity registry after the entities of the legacy entry that are scoped to
\* the MAC of new_id moved to the entry new_id.
\* (Variant: entities matched by MAC prefix, without the separator.)
MigrateEntitiesByPrefix(er, ce, legacy_id, new_id) ==
    [u \in DOMAIN er |->
        IF er[u].config_entry_id = legacy_id
           /\ MacOfUniqueIdPrefix(er[u].unique_id) = Some(ce[new_id].unique_id)
        THEN [er[u] EXCEPT !.config_entry_id = new_id]
        ELSE er[u]]
MigrateEntities(er, ce, legacy_id, new_id) ==
    [u \in DOMAIN er |->
        IF er[u].config_entry_id = legacy_id
           /\ MacOfUniqueId(er[u].unique_id) = Some(ce[new_id].unique_id)
        THEN [er[u] EXCEPT !.config_entry_id = new_id]
        ELSE er[u]]

\* The entities of a config entry (er.async_entries_for_config_entry).
EntitiesOf(er, id) == {u \in DOMAIN er : er[u].config_entry_id = id}

\* Whether the deferred cleanup removes the legacy entry: only when no entity
\* is left on it.
\* (Variants: removed unconditionally; never removed.)
CleanupRemovesAlways(er, legacy_id) == TRUE
CleanupRemovesNever(er, legacy_id) == FALSE
CleanupRemoves(er, legacy_id) == EntitiesOf(er, legacy_id) = {}

\* The moment the deferred cleanup is due, scheduled at time t.
\* (Variant: no delay.)
CleanupDueImmediately(t) == t
CleanupDue(t) == t + CLEANUP_DELAY

\* The registries after the host removed config entry id.
Restrict(f, S) == [k \in S |-> f[k]]
RemoveEntry(ce, id) == Restrict(ce, DOMAIN ce \ {id})
DevicesWithoutEntry(dr, id) ==
    LET kept == {k \in DOMAIN dr : dr[k].config_entries \ {id} # {}}
    IN  [k \in kept |-> [dr[k] EXCEPT !.config_entries = @ \ {id}]]
EntitiesWithoutEntry(er, id) == Restrict(er, DOMAIN er \ EntitiesOf(er, id))

\* The registries of the fixtures: a legacy entry (or none), per-device entries
\* left by an earlier migration for the MACs in pre, and device and entity
\* records owned by the legacy entry.
FixtureEntries(hasLegacy, pre) ==
    EnsureEntries(IF hasLegacy
                  THEN LegacyId :> [unique_id |-> TPLINK_DOMAIN, host |-> None]
                  ELSE EmptyDict, pre)
FixtureDevices(devs) ==
    [m \in devs |-> [mac |-> m, config_entries |-> {LegacyId}]]
FixtureEntities(ents) ==
    [u \in ents |-> [unique_id |-> u, config_entry_id |-> LegacyId]]

CodeIdle ==
    /\ hassData = None
    /\ entry = [data |-> EmptyDict, state |-> "not_loaded"]
    /\ flowInits = 0
    /\ lastCall = NoCall

MigInit ==
    /\ CodeIdle
    /\ \E hasLegacy \in BOOLEAN, pre \in SUBSET Macs :
        \E devs \in (IF hasLegacy THEN SUBSET Macs ELSE {{}}),
           ents \in (IF hasLegacy
                     THEN {E \in SUBSET UniqueIds : Cardinality(E) <= MaxEntities}
                     ELSE {{}}) :
            /\ config_entries = FixtureEntries(hasLegacy, pre)
            /\ device_reg = FixtureDevices(devs)
            /\ entity_reg = FixtureEntities(ents)
            /\ mig = [phase |-> "init", now |-> 0, timer |-> None, fired |-> None,
                      found |-> {}, loaded |-> {},
                      had_legacy |-> hasLegacy, init_ids |-> DOMAIN FixtureEntries(hasLegacy, pre),
                      init_entities |-> ents, init_devices |-> devs, scheduled_at |-> None]

\* The per-device entries the host can set up: those of a device that answers.
Loadable == {id \in DOMAIN config_entries : config_entries[id].unique_id \in mig.found}
AllSetUp == mig.phase = "setup" /\ Loadable \subseteq mig.loaded

\* Set-up of the integration: the devices in found are discovered, every one of
\* them gets its per-device entry, and with a legacy entry present its cleanup
\* is scheduled CLEANUP_DELAY seconds ahead.
MigAsyncSetup(found) ==
    /\ mig.phase = "init"
    /\ config_entries' = EnsureEntries(config_entries, found)
    /\ mig' = [mig EXCEPT !.phase = "setup", !.found = found,
                  !.timer = IF LegacyEntries(config_entries) # {}
                            THEN Some(CleanupDue(mig.now)) ELSE None,
                  !.scheduled_at = IF LegacyEntries(config_entries) # {}
                                   THEN Some(mig.now) ELSE None]
    /\ UNCHANGED <<device_reg, entity_reg, codeVars>>

\* Set-up of the per-device entry id: with a legacy entry present, the device
\* and entity records of its MAC move from the legacy entry to it.
MigSetupEntry(id) ==
    /\ mig.phase = "setup"
    /\ id \in Loadable \ mig.loaded
    /\ IF LegacyEntries(config_entries) # {}
       THEN LET legacy_id == CHOOSE l \in LegacyEntries(config_entries) : TRUE
            IN  /\ device_reg' = MigrateDevices(device_reg, config_entries, legacy_id, id)
                /\ entity_reg' = MigrateEntities(entity_reg, config_entries, legacy_id, id)
       ELSE UNCHANGED <<device_reg, entity_reg>>
    /\ mig' = [mig EXCEPT !.loaded = @ \cup {id}]
    /\ UNCHANGED <<config_entries, codeVars>>

\* The host's clock, in seconds since set-up started.  The host sets the entries
\* up as part of its start, before any timer fires.
TimeSteps == {20, 45}
MigAdvanceTime(dt) ==
    /\ AllSetUp
    /\ mig.now + dt <= MaxNow
    /\ mig' = [mig EXCEPT !.now = @ + dt]
    /\ UNCHANGED <<config_entries, device_reg, entity_reg, codeVars>>

\* The deferred cleanup, run by the host's timer once it is due: the legacy
\* entry is removed when no entity is left on it.
MigCleanup ==
    /\ mig.timer # None
    /\ mig.now >= mig.timer[1]
    /\ LegacyEntries(config_entries) # {}
    /\ LET legacy_id == CHOOSE l \in LegacyEntries(config_entries) : TRUE
           remove == CleanupRemoves(entity_reg, legacy_id)
       IN  /\ config_entries' = IF remove THEN RemoveEntry(config_entries, legacy_id)
                                ELSE config_entries
           /\ device_reg' = IF remove THEN DevicesWithoutEntry(device_reg, legacy_id)
                            ELSE device_reg
           /\ entity_reg' = IF remove THEN EntitiesWithoutEntry(entity_reg, legacy_id)
                            ELSE entity_reg
           /\ mig' = [mig EXCEPT !.timer = None,
                         !.fired = Some([at |-> mig.now,
                                         leftover |-> EntitiesOf(entity_reg, legacy_id)])]
    /\ UNCHANGED codeVars

MigNext ==
    \/ \E found \in SUBSET Macs : MigAsyncSetup(found)
    \/ \E id \in DOMAIN config_entries : MigSetupEntry(id)
    \/ \E dt \in TimeSteps : MigAdvanceTime(dt)
    \/ MigCleanup

MigSpec == MigInit /\ [][MigNext]_vars

\* The host runs a timer that is due.
MigFairSpec == MigSpec /\ WF_vars(MigCleanup)

(***************************************************************************)
(* Properties.                                                             *)
(***************************************************************************)
\* A unique id scoped to mac, as the data model words it: the MAC itself, or
\* the MAC, "_" and a suffix.
DeviceScoped(uid, mac) ==
    \/ uid = <<mac>>
    \/ Len(uid) >= 3 /\ uid[1] = mac /\ uid[2] = "_"

MigrationDone == mig.phase = "setup" /\ AllSetUp
LegacyPresent == LegacyEntries(config_entries) # {}

C3_Pre ==
    /\ MigrationDone /\ mig.had_legacy
    /\ EntitiesOf(entity_reg, LegacyId) = {}
    /\ mig.now >= CLEANUP_DELAY
Downgraded(m) ==
    /\ mig.had_legacy
    /\ \E e \in mig.init_ids : e # LegacyId /\ e \in DOMAIN config_entries
                               /\ config_entries[e].unique_id = m
    /\ m \in mig.init_devices
    /\ <<m>> \in mig.init_entities
C6_OneEntryPerMac ==
    /\ \A m \in Macs : Cardinality(EntriesOfMac(config_entries, m)) <= 1
    /\ \A m \in Macs : Downgraded(m) => EntriesOfMac(config_entries, m) \subseteq mig.init_ids
C6_Pre ==
    /\ \E m \in mig.found : Downgraded(m)
    /\ C3_Pre
EmeterAttributes == {"has_emeter", "emeter_today", "emeter_realtime"}

\* C7: a refresh during which device.update fails ends in UpdateFailed, returns
\* no data, and reads no emeter attribute of the device.
C7_UpdateFailureSurfacesAsUpdateFailed ==
    (lastCall.op = "refresh" /\ ~lastCall.st.reachable) =>
        /\ lastCall.outcome = "UpdateFailed"
        /\ lastCall.data = None
        /\ lastCall.reads \cap EmeterAttributes = {}
C7_Witness ==
    /\ lastCall.op = "refresh"
    /\ ~lastCall.st.reachable /\ lastCall.st.has_emeter
    /\ lastCall.st.emeter_today = Some(5)

\* C8: a successful refresh returns the empty mapping for a device without
\* emeter, else a mapping with the single key CONF_EMETER_PARAMS holding exactly
\* power, total energy, voltage, current and today's energy, the last being
\* emeter_today when not None, else None for a bulb and 0.0 otherwise.
C8_Expected(d, st) ==
    IF st.emeter_today # None THEN st.emeter_today
    ELSE IF d % 2 = 1 THEN None ELSE Some(0)
\* C8: the output shape of a successful refresh.
C8_RefreshOutputShape ==
    (lastCall.op = "refresh" /\ lastCall.st.reachable) =>
        /\ lastCall.outcome = "return"
        /\ lastCall.data # None
        /\ LET data == lastCall.data[1]
               d == lastCall.device
           IN  IF ~lastCall.st.has_emeter THEN DOMAIN data = {}
               ELSE /\ DOMAIN data = {"emeter_params"}
                    /\ DOMAIN data["emeter_params"] =
                          {"current_power_w", "total_energy_kwh", "voltage",
                           "current_a", "today_energy_kwh"}
                    /\ data["emeter_params"]["current_power_w"] = EmeterRealtime(d).power
                    /\ data["emeter_params"]["total_energy_kwh"] = EmeterRealtime(d).total
                    /\ data["emeter_params"]["voltage"] = EmeterRealtime(d).voltage
                    /\ data["emeter_params"]["current_a"] = EmeterRealtime(d).current
                    /\ data["emeter_params"]["today_energy_kwh"] =
                          C8_Expected(d, lastCall.st)
C8_Witness ==
    /\ lastCall.op = "refresh"
    /\ lastCall.st.reachable /\ lastCall.st.has_emeter
    /\ lastCall.st.emeter_today = Some(0)
    /\ IsBulb(lastCall.device)
    /\ lastCall.data[1]["emeter_params"]["today_energy_kwh"] = Some(0)

\* C9: async_setup_entry returns True, sets the platforms up once, refreshes
\* every device of switches + lights in order and registers a coordinator for
\* every one of them under its device_id, whichever devices cannot be reached.
C9_UnreachableDeviceDoesNotAbortSetup ==
    lastCall.op = "async_setup_entry" =>
        /\ lastCall.ret = "True"
        /\ lastCall.platform_setups = 1
        /\ lastCall.refreshed = lastCall.devices
        /\ hassData # None
        /\ "coordinators" \in DOMAIN hassData[1]
        /\ DOMAIN hassData[1]["coordinators"] =
              {lastCall.devices[i] : i \in 1..Len(lastCall.devices)}
        /\ \A d \in DOMAIN hassData[1]["coordinators"] :
              hassData[1]["coordinators"][d].device = d
        /\ entry.state = "loaded"
C9_Witness ==
    /\ lastCall.op = "async_setup_entry"
    /\ \E i, j \in 1..Len(lastCall.devices) :
          /\ i < j
          /\ lastCall.devices[i] \in lastCall.unreachable
          /\ lastCall.devices[j] \notin lastCall.unreachable
    /\ lastCall.ret = "True"

\* C10: async_unload_entry returns the result of the platform unload; it leaves
\* hass.data[DOMAIN] as it was when the unload failed and empties it when the
\* unload succeeded.
C10_UnloadClearsIffUnloaded ==
    lastCall.op = "async_unload_entry" =>
        /\ lastCall.ret = lastCall.unload_ok
        /\ hassData # None
        /\ lastCall.unload_ok => DOMAIN hassData[1] = {}
        /\ ~lastCall.unload_ok =>
              /\ hassData[1] = lastCall.before
              /\ DOMAIN hassData[1] # {}
C10_Witness ==
    /\ lastCall.op = "async_unload_entry"
    /\ ~lastCall.unload_ok
    /\ "coordinators" \in DOMAIN hassData[1]
    /\ DOMAIN hassData[1]["coordinators"] # {}

====
